---- MODULE Spec2Model ----
(***************************************************************************)
(* Model of the PortalBox tunnel client (crates/client/src/proxy_client.rs)*)
(* The daemon `start` receives ConnectServiceRequests and spawns one       *)
(* `start_service` task (the pool supervisor) per request.  A supervisor   *)
(* owns the replenishment channel (new_stream), the end_service channel    *)
(* and the bounded queue `connections` of cancellation drop guards, and    *)
(* spawns one `run_proxy_connection` task (a worker) per signal received.  *)
(* Every await point of the source is a separate step of the model; what   *)
(* the proxy server, the network and the local service do is chosen        *)
(* nondeterministically.                                                   *)
(***************************************************************************)
EXTENDS Integers, Sequences, FiniteSets, TLC

\* ---------------------------------------------------------------- constants
\* proxy_client.rs:14
MAX_READY_CONNECTIONS == 4
\* proxy_client.rs:69, capacity of the end_service channel
END_SERVICE_CAPACITY == 1

\* ------------------------------------------------------------------- bounds
\* workers one supervisor may spawn in a checked run
MaxSpawn == 5
\* faults (failed dial, failed ack read, AuthFailed, failed pending read,
\* failed local connect) the environment injects per pool
MaxFaults == 1
\* workers per supervisor when two registrations run side by side
DaemonSpawn == 1
\* consecutive failures of one worker followed through its backoff
MaxAttempts == 12
\* the random numbers drawn by the backoff are the multiples of 1/RandomSteps
RandomSteps == 8
\* bytes each side of a bridge sends
MaxBytes == 4


VARIABLES
    limit,        \* the run's limits: pools, workers, units and faults per pool
    callers,      \* sign-in requests the callers have still to send
    requests,     \* requests queued on the daemon's channel
    sup,          \* sup[p]: state of start_service for pool p
    chan,         \* chan[p]: queue of the new_stream channel (origin of each unit)
    endChan,      \* endChan[p]: units queued on the end_service channel
    connections,  \* connections[p]: queue of drop guards (ids of the workers)
    spawned,      \* spawned[p]: number of workers spawned so far
    ticks,        \* ticks[p]: units sent by the refresh loop so far
    pc,           \* pc[p][w]: position of worker w in run_proxy_connection
    read,         \* read[p][w]: result of the first read of the proxy stream
    emitted,      \* emitted[p][w]: units worker w delivered to new_stream
    retries,      \* retries[p][w]: calls of backoff.next_backoff in the retry loop
    faults,       \* faults[p]: faults injected so far
    idle,         \* idle[p][w]: refresh periods that ended while w was pending
    backoff,      \* the ExponentialBackoff of one worker, followed call by call
    local,        \* one activation: configuration, request, first frame, port connected
    wire,         \* one stream of the wire protocol: bytes written, position read, results
    conf,         \* the configuration's server address and what its accessors returned
    bridge        \* one activated worker: first read, write to the local service, duplex copy

vars == <<limit, callers, requests, sup, chan, endChan, connections, spawned, ticks,
          pc, read, emitted, retries, faults, idle, backoff, local, wire, conf, bridge>>

\* what no step of the daemon, of a supervisor or of a worker changes
fixedVars == <<limit, idle, backoff, local, wire, conf, bridge>>

\* the pools the daemon may start and the workers a supervisor may spawn
Pools == 1..limit.pools
Workers == 1..limit.spawn

supVars == <<sup, chan, endChan, connections, spawned, ticks>>

workerVars == <<pc, read, emitted, retries>>

\* ------------------------------------------------------------ worker states
\* positions inside the loop "until we have a ready connection" (lines 143-155)
RetryLoop == {"dial", "endsend", "backoff"}
\* positions after which run_proxy_connection has returned
Terminal == {"cancelled", "lost", "localfail", "closed"}
PcStates == {"none", "pending", "signal", "connect", "bridge"} \cup RetryLoop \cup Terminal
Running == PcStates \ (Terminal \cup {"none"})

ReadResults == {"data", "eof", "err"}
\* protocol.rs:21: the two bytes of a Ping frame, when the server sends one
\* (the read returns them like any other bytes)
PingFrame == "ping"
\* lines 177-180: the read returned Ok(n) with n > 0
HasBytes(r) == r \in {"data", PingFrame}
Origins == {"init", "refresh", "activate", "error"}

\* ------------------------------------------------------------------ helpers
Range(q) == {q[i] : i \in 1..Len(q)}

\* concurrent_queue::ConcurrentQueue::is_full
IsFull(q) == Len(q) = MAX_READY_CONNECTIONS

PushGuardDropAll(q, w) == IF IsFull(q) THEN <<w>> ELSE Append(q, w)

\* lines 94-97: pop the oldest guard when the queue is full, then push the new one
PushGuard(q, w) == Append(IF IsFull(q) THEN Tail(q) ELSE q, w)

\* A worker's token is cancelled when its drop guard has been dropped: popped
\* from `connections`, or dropped with the queue when start_service returns.
Cancelled(p, w) == pc[p][w] # "none" /\ w \notin Range(connections[p])

\* tokio mpsc Sender::send completes at once only while the channel has room
HasRoom(q) == Len(q) < MAX_READY_CONNECTIONS

SendDrop(q, o) == q

\* lines 102, 108, 175: Sender::send queues one unit
Send(q, o) == Append(q, o)

RecvAll(q) == <<>>

\* line 72: Receiver::recv takes one unit
Recv(q) == Tail(q)

MatchRetGiveUp(ret) == IF ret = "Ok" THEN "pending" ELSE "lost"

\* lines 146-154: Ok breaks out of the loop, every Err sleeps and tries again
MatchRet(ret) == IF ret = "Ok" THEN "pending" ELSE "backoff"

AfterSignalConnect(r) == "connect"

\* lines 174-180: after the signal, an error or an empty read returns
AfterSignal(r) == IF HasBytes(r) THEN "connect" ELSE "lost"

\* line 175: what the unit sent stands for (the channel itself carries `()`)
Origin(r) == IF HasBytes(r) THEN "activate" ELSE "error"

InitialUnitsShort == [i \in 1..(MAX_READY_CONNECTIONS - 1) |-> "init"]

\* lines 101-103: the units start_service sends before its select
InitialUnits == [i \in 1..MAX_READY_CONNECTIONS |-> "init"]

EndServiceArmContinue == "running"

\* lines 119-124: the end_service arm of the select ends start_service
EndServiceArm == "terminated"

DropGuardsEverywhere(p) == [q \in Pools |-> <<>>]

\* line 63 and 124: `connections` is a local of start_service, dropped with
\* its guards when that supervisor returns
DropGuards(p) == [connections EXCEPT ![p] = <<>>]

\* units that may still turn into a spawn
Outstanding(p) == spawned[p] + Len(chan[p]) + Cardinality({w \in Workers : pc[p][w] = "signal"})

\* --------------------------------------------------------------------- init
\* --------------------------------------------------------------- backoff
\* Durations are counted in 1/128 ms, which keeps every interval of the
\* sequence 500 ms * 1.5^n and its halves and eighths whole.
Millis(n) == 128 * n

\* backoff::default::INITIAL_INTERVAL_MILLIS, taken by `..Default::default()`
INITIAL_INTERVAL_MILLIS == 500
\* line 137: max_interval: Duration::from_secs(4)
MAX_INTERVAL_MILLIS == 4000

\* backoff::default::MULTIPLIER = 1.5
Multiply(x) == (3 * x) \div 2
\* backoff::default::RANDOMIZATION_FACTOR = 0.5
Delta(x) == x \div 2

\* ExponentialBackoff::get_random_value_from_interval, with the random number
\* r / RandomSteps of [0, 1]
get_random_value_from_interval(r, current_interval) ==
    LET min_interval == current_interval - Delta(current_interval)
        max_interval == current_interval + Delta(current_interval)
    IN  min_interval + (r * (max_interval - min_interval)) \div RandomSteps

increment_unbounded(current_interval) == Multiply(current_interval)

\* ExponentialBackoff::increment_current_interval: times the multiplier,
\* capped at max_interval
increment_current_interval(current_interval) ==
    IF 3 * current_interval >= 2 * Millis(MAX_INTERVAL_MILLIS)
        THEN Millis(MAX_INTERVAL_MILLIS)
        ELSE Multiply(current_interval)

\* lines 136-140: the backoff as constructed; slept is the last duration
\* next_backoff returned, calls the number of calls
NewBackoff == [current_interval |-> Millis(INITIAL_INTERVAL_MILLIS), slept |-> 0, calls |-> 0]

\* line 150: backoff.next_backoff(); max_elapsed_time is None, so the result
\* is always Some(randomized interval)
next_backoff(r) ==
    /\ backoff.calls < MaxAttempts
    /\ backoff' = [current_interval |-> increment_current_interval(backoff.current_interval),
                   slept |-> get_random_value_from_interval(r, backoff.current_interval),
                   calls |-> backoff.calls + 1]
    /\ UNCHANGED <<limit, callers, requests, supVars, workerVars, faults, idle, local, wire, conf, bridge>>

\* ------------------------------------------------------- local service
\* config.rs:37-39
DEFAULT_LOCAL_HOME_SERVICE_PORT == 3030
DEFAULT_VSCODE_PORT == 3000
DEFAULT_SSH_PORT == 22

\* Config::default
DefaultConfig ==
    [local_home_service_port |-> DEFAULT_LOCAL_HOME_SERVICE_PORT,
     vscode_port |-> DEFAULT_VSCODE_PORT,
     ssh_port |-> DEFAULT_SSH_PORT]

\* Config::new: every port can be set in config.toml or the environment
Configs ==
    [local_home_service_port : {DEFAULT_LOCAL_HOME_SERVICE_PORT, DEFAULT_LOCAL_HOME_SERVICE_PORT + 1},
     vscode_port : {DEFAULT_VSCODE_PORT, DEFAULT_VSCODE_PORT + 1},
     ssh_port : {DEFAULT_SSH_PORT, DEFAULT_SSH_PORT + 1}]

\* the local services a request may name
ServicePorts(c) == {c.local_home_service_port, c.vscode_port, c.ssh_port}

\* what the first bytes the server sends on an activated stream say
Tags == {"DataHome", "DataVscode", "DataSsh"}

\* a worker of a pool whose request names the loopback port `address`, before
\* anything is read
NewLocal(c, address) == [config |-> c, address |-> address, tag |-> "none", port |-> 0]

\* lines 166-168: the first read returns the bytes of a frame tagged t
FirstRead(t) ==
    /\ local.tag = "none"
    /\ local' = [local EXCEPT !.tag = t]
    /\ UNCHANGED <<limit, callers, requests, supVars, workerVars, faults, idle, backoff, wire, conf, bridge>>

\* lines 182-186: the address connected to is the request's
\* local_service_address, whatever was read
Target(l) == l.address

\* lines 182-187: TcpStream::connect to the local service
LocalConnect ==
    /\ local.tag # "none"
    /\ local.port = 0
    /\ local' = [local EXCEPT !.port = Target(local)]
    /\ UNCHANGED <<limit, callers, requests, supVars, workerVars, faults, idle, backoff, wire, conf, bridge>>

\* config.rs:34, the Url parsed from "https://www.portalbox.app": scheme,
\* host, port (0 when the text has none), path and query; a text is the
\* sequence of its pieces
DefaultServerUrl ==
    [scheme |-> "https", host |-> "www.portalbox.app", port |-> 0, path |-> <<"/">>, query |-> ""]

\* config.rs:35
DEFAULT_SERVER_PROXY_PORT == 46637

\* a configuration nothing was asked of yet
NewConf(url, port) ==
    [server_url |-> url, server_proxy_port |-> port, proxy_url |-> <<>>, with_path |-> <<>>]

\* proxy_client.rs:157-193: an authenticated worker before its first read;
\* the bytes of the proxy stream are numbered 1, 2, ... in the order sent
NewBridge ==
    [stage |-> "read", init_buf |-> <<>>, taken |-> 0, delivered |-> <<>>, back |-> 0,
     a_to_b |-> "Running", b_to_a |-> "Running", ret |-> "none"]

\* a stream nothing was written on or read from: the bytes written, the
\* number of bytes the reader consumed, the arguments the writers were given
\* (hello, message) and what the readers returned (fixed, msg)
NewWire == [bytes |-> <<>>, pos |-> 0, hello |-> <<>>, message |-> <<>>,
            fixed |-> <<>>, msg |-> <<>>]

\* the client has started: no request sent yet, no supervisor, no worker
InitPools(l) ==
    /\ limit = l
    /\ callers = l.pools
    /\ requests = 0
    /\ sup = [p \in 1..l.pools |-> "none"]
    /\ chan = [p \in 1..l.pools |-> <<>>]
    /\ endChan = [p \in 1..l.pools |-> 0]
    /\ connections = [p \in 1..l.pools |-> <<>>]
    /\ spawned = [p \in 1..l.pools |-> 0]
    /\ ticks = [p \in 1..l.pools |-> 0]
    /\ pc = [p \in 1..l.pools |-> [w \in 1..l.spawn |-> "none"]]
    /\ read = [p \in 1..l.pools |-> [w \in 1..l.spawn |-> "none"]]
    /\ emitted = [p \in 1..l.pools |-> [w \in 1..l.spawn |-> 0]]
    /\ retries = [p \in 1..l.pools |-> [w \in 1..l.spawn |-> 0]]
    /\ faults = [p \in 1..l.pools |-> 0]
    /\ idle = [p \in 1..l.pools |-> [w \in 1..l.spawn |-> 0]]
    /\ backoff = NewBackoff

\* the same, with the default configuration and a request for the home service
InitLimit(l) ==
    /\ InitPools(l)
    /\ local = NewLocal(DefaultConfig, DEFAULT_LOCAL_HOME_SERVICE_PORT)
    /\ wire = NewWire
    /\ conf = NewConf(DefaultServerUrl, DEFAULT_SERVER_PROXY_PORT)
    /\ bridge = NewBridge

\* one caller signs in; the supervisor may spawn MaxSpawn workers
Init == InitLimit([pools |-> 1, spawn |-> MaxSpawn, units |-> MaxSpawn, faults |-> MaxFaults])

\* ------------------------------------------------------------------- daemon
\* website.rs:257-266: a caller pushes a ConnectServiceRequest
SendRequest ==
    /\ callers > 0
    /\ callers' = callers - 1
    /\ requests' = requests + 1
    /\ UNCHANGED <<supVars, workerVars, faults, fixedVars>>

\* lines 44-52: the daemon receives a request and spawns start_service
DaemonRecv(p) ==
    /\ requests > 0
    /\ sup[p] = "none"
    /\ \A q \in Pools : q < p => sup[q] # "none"
    /\ requests' = requests - 1
    /\ sup' = [sup EXCEPT ![p] = "starting"]
    /\ UNCHANGED <<callers, chan, endChan, connections, spawned, ticks, workerVars, faults, fixedVars>>

\* --------------------------------------------------------------- supervisor
\* lines 60-103: channels are created and MAX_READY_CONNECTIONS units are sent
StartService(p) ==
    /\ sup[p] = "starting"
    /\ sup' = [sup EXCEPT ![p] = "running"]
    /\ chan' = [chan EXCEPT ![p] = InitialUnits]
    /\ UNCHANGED <<callers, requests, endChan, connections, spawned, ticks, workerVars, faults, fixedVars>>

\* lines 72-98: one unit received, one worker spawned, its guard queued
Spawn(p) ==
    /\ sup[p] = "running"
    /\ chan[p] # <<>>
    /\ spawned[p] < limit.spawn
    /\ LET w == spawned[p] + 1 IN
        /\ chan' = [chan EXCEPT ![p] = Recv(@)]
        /\ spawned' = [spawned EXCEPT ![p] = w]
        /\ pc' = [pc EXCEPT ![p][w] = "dial"]
        /\ connections' = [connections EXCEPT ![p] = PushGuard(@, w)]
    /\ UNCHANGED <<callers, requests, sup, endChan, ticks, read, emitted, retries, faults, fixedVars>>

\* lines 105-110: the refresh loop has slept REFRESH_CONN_INTERVAL and sends
\* one unit (the send waits while the channel is full)
RefreshSend(p) ==
    /\ sup[p] = "running"
    /\ HasRoom(chan[p])
    /\ Outstanding(p) < limit.units
    /\ chan' = [chan EXCEPT ![p] = Send(@, "refresh")]
    /\ ticks' = [ticks EXCEPT ![p] = @ + 1]
    /\ UNCHANGED <<callers, requests, sup, endChan, connections, spawned, workerVars, faults,
                   limit, backoff, local, wire, conf, bridge>>

\* the refresh, with no record of who was waiting meanwhile
RefreshTick(p) == RefreshSend(p) /\ UNCHANGED idle

\* the refresh, recording that one more period of REFRESH_CONN_INTERVAL has
\* ended for every worker whose pending read is still waiting
RefreshPeriod(p) ==
    /\ RefreshSend(p)
    /\ idle' = [idle EXCEPT ![p] =
                   [w \in Workers |-> IF pc[p][w] = "pending" THEN @[w] + 1 ELSE @[w]]]

\* lines 119-124: end_service received; start_service returns, which drops the
\* receivers and the queue of guards
Terminate(p) ==
    /\ sup[p] = "running"
    /\ endChan[p] > 0
    /\ endChan' = [endChan EXCEPT ![p] = @ - 1]
    /\ sup' = [sup EXCEPT ![p] = EndServiceArm]
    /\ connections' = IF EndServiceArm = "terminated" THEN DropGuards(p) ELSE connections
    /\ UNCHANGED <<callers, requests, chan, spawned, ticks, workerVars, faults, fixedVars>>

\* ------------------------------------------------------------------ workers
\* the environment makes an operation fail, within the budget of the pool
Fault(p) ==
    /\ faults[p] < limit.faults
    /\ faults' = [faults EXCEPT ![p] = @ + 1]

Goto(p, w, to) == pc' = [pc EXCEPT ![p][w] = to]

\* lines 148-153: backoff.next_backoff is called, the worker sleeps
NextBackoff(p, w) == retries' = [retries EXCEPT ![p][w] = @ + 1]

\* lines 202-222: connect, TLS handshake, hello write or ack read fails,
\* get_ready_connection returns Err
DialFail(p, w) ==
    /\ pc[p][w] = "dial"
    /\ Fault(p)
    /\ Goto(p, w, MatchRet("Err"))
    /\ NextBackoff(p, w)
    /\ UNCHANGED <<callers, requests, supVars, read, emitted, fixedVars>>

\* lines 202-225 and 146-147: connected, hello written and the ack is Ok, the
\* loop is left (the backoff state is not used after the loop)
AckOk(p, w) ==
    /\ pc[p][w] = "dial"
    /\ Goto(p, w, MatchRet("Ok"))
    /\ retries' = [retries EXCEPT ![p][w] = 0]
    /\ UNCHANGED <<callers, requests, supVars, read, emitted, faults, fixedVars>>

\* lines 202-227: connected, hello written and the ack is Failed, the worker
\* goes on to send on end_service
AckFailed(p, w) ==
    /\ pc[p][w] = "dial"
    /\ Fault(p)
    /\ Goto(p, w, "endsend")
    /\ UNCHANGED <<callers, requests, supVars, read, emitted, retries, fixedVars>>

\* lines 227-228 and 148-153: end_service_sender.send completes (delivered, or
\* refused because the receiver is gone), get_ready_connection returns Err
SendEnd(p, w) ==
    /\ pc[p][w] = "endsend"
    /\ \/ /\ sup[p] = "running"
          /\ endChan[p] < END_SERVICE_CAPACITY
          /\ endChan' = [endChan EXCEPT ![p] = @ + 1]
       \/ /\ sup[p] = "terminated"
          /\ UNCHANGED endChan
    /\ Goto(p, w, MatchRet("Err"))
    /\ NextBackoff(p, w)
    /\ UNCHANGED <<callers, requests, sup, chan, connections, spawned, ticks, read, emitted, faults, fixedVars>>

\* lines 150-152: the backoff sleep ends, next iteration of the loop
Backoff(p, w) ==
    /\ pc[p][w] = "backoff"
    /\ Goto(p, w, "dial")
    /\ UNCHANGED <<callers, requests, supVars, read, emitted, retries, faults, fixedVars>>

\* lines 160-165: the select takes the cancellation branch
ObserveCancel(p, w) ==
    /\ pc[p][w] = "pending"
    /\ Cancelled(p, w)
    /\ Goto(p, w, "cancelled")
    /\ UNCHANGED <<callers, requests, supVars, read, emitted, retries, faults, fixedVars>>

\* lines 166-168: the select takes the read branch
Read(p, w, r) ==
    /\ pc[p][w] = "pending"
    /\ Outstanding(p) < limit.units
    /\ IF HasBytes(r) THEN UNCHANGED faults ELSE Fault(p)
    /\ Goto(p, w, "signal")
    /\ read' = [read EXCEPT ![p][w] = r]
    /\ UNCHANGED <<callers, requests, supVars, emitted, retries, fixedVars>>

\* lines 175-180: new_stream_sender.send completes (delivered, or refused
\* because the receiver is gone), then the read result is examined
SendSignal(p, w) ==
    /\ pc[p][w] = "signal"
    /\ \/ /\ sup[p] = "running"
          /\ HasRoom(chan[p])
          /\ chan' = [chan EXCEPT ![p] = Send(@, Origin(read[p][w]))]
          /\ emitted' = [emitted EXCEPT ![p][w] = @ + 1]
       \/ /\ sup[p] = "terminated"
          /\ UNCHANGED <<chan, emitted>>
    /\ Goto(p, w, AfterSignal(read[p][w]))
    /\ read' = [read EXCEPT ![p][w] = "none"]
    /\ UNCHANGED <<callers, requests, sup, endChan, connections, spawned, ticks, retries, faults, fixedVars>>

\* lines 182-191: the local service is connected and the first bytes written
LocalConnectOk(p, w) ==
    /\ pc[p][w] = "connect"
    /\ Goto(p, w, "bridge")
    /\ UNCHANGED <<callers, requests, supVars, read, emitted, retries, faults, fixedVars>>

\* lines 182-191: connect or write fails
LocalConnectFail(p, w) ==
    /\ pc[p][w] = "connect"
    /\ Fault(p)
    /\ Goto(p, w, "localfail")
    /\ UNCHANGED <<callers, requests, supVars, read, emitted, retries, fixedVars>>

\* lines 193-195: copy_bidirectional returns
BridgeEnd(p, w) ==
    /\ pc[p][w] = "bridge"
    /\ Goto(p, w, "closed")
    /\ UNCHANGED <<callers, requests, supVars, read, emitted, retries, faults, fixedVars>>

WorkerStep(p, w) ==
    \/ DialFail(p, w)
    \/ AckOk(p, w)
    \/ AckFailed(p, w)
    \/ SendEnd(p, w)
    \/ Backoff(p, w)
    \/ ObserveCancel(p, w)
    \/ \E r \in ReadResults : Read(p, w, r)
    \/ SendSignal(p, w)
    \/ LocalConnectOk(p, w)
    \/ LocalConnectFail(p, w)
    \/ BridgeEnd(p, w)

SupervisorStep(p) ==
    \/ StartService(p)
    \/ Spawn(p)
    \/ RefreshTick(p)
    \/ Terminate(p)

Next ==
    \/ SendRequest
    \/ \E p \in Pools : DaemonRecv(p)
    \/ \E p \in Pools : SupervisorStep(p)
    \/ \E p \in Pools : \E w \in Workers : WorkerStep(p, w)

Spec == Init /\ [][Next]_vars

\* the steps of a worker that wait for nothing outside the process: a channel
\* send that can complete, the end of the backoff sleep, a cancelled token
WorkerInternal(p, w) ==
    \/ SendEnd(p, w)
    \/ Backoff(p, w)
    \/ ObserveCancel(p, w)
    \/ SendSignal(p, w)

\* the steps that end a connection attempt (to the proxy server, to the local
\* service), whatever the outcome
WorkerConnect(p, w) ==
    \/ DialFail(p, w) \/ AckOk(p, w) \/ AckFailed(p, w)
    \/ LocalConnectOk(p, w) \/ LocalConnectFail(p, w)

\* The runtime polls every task that is ready, so the supervisor and the
\* internal steps of the workers are taken when they stay enabled, and every
\* connection attempt comes to an end, with an outcome that is not constrained.
\* Nothing is assumed of how long a pending stream stays silent or a bridged
\* session lasts: the code sets no timeout on either.
FairSpec ==
    /\ Spec
    /\ \A p \in {1} : WF_vars(SupervisorStep(p))
    /\ \A p \in {1} : \A w \in 1..MaxSpawn : WF_vars(WorkerInternal(p, w))
    /\ \A p \in {1} : \A w \in 1..MaxSpawn : WF_vars(WorkerConnect(p, w))

\* ------------------------------------------------- a pool with no faults
\* The same pool with room for one more worker and one more unit, a server and
\* a local service that do not fail, and the refresh periods recorded.
QuietWorkerStep(p, w) ==
    \/ AckOk(p, w)
    \/ ObserveCancel(p, w)
    \/ Read(p, w, "data")
    \/ Read(p, w, PingFrame)
    \/ SendSignal(p, w)
    \/ LocalConnectOk(p, w)
    \/ BridgeEnd(p, w)

QuietSupervisorStep(p) ==
    \/ StartService(p)
    \/ Spawn(p)
    \/ RefreshPeriod(p)

InitRefresh ==
    InitLimit([pools |-> 1, spawn |-> MaxSpawn + 1, units |-> MaxSpawn + 1, faults |-> 0])

NextRefresh ==
    \/ SendRequest
    \/ \E p \in Pools : DaemonRecv(p)
    \/ \E p \in Pools : QuietSupervisorStep(p)
    \/ \E p \in Pools : \E w \in Workers : QuietWorkerStep(p, w)

SpecRefresh == InitRefresh /\ [][NextRefresh]_vars

\* ------------------------------------------- one worker that keeps failing
NextRetry == \E r \in 0..RandomSteps : next_backoff(r)

SpecBackoff == Init /\ [][NextRetry]_vars

\* ----------------------------------------------------- two registrations
\* Two callers sign in (a re-sign-in with another credential): the daemon
\* starts a supervisor for each; every step of the model is possible, with
\* one fault and one unit more than the initial ones in each pool.
InitDaemon ==
    InitLimit([pools |-> 2, spawn |-> DaemonSpawn,
               units |-> MAX_READY_CONNECTIONS + 1, faults |-> 1])

SpecDaemon == InitDaemon /\ [][Next]_vars

\* --------------------------------------- one activation, any configuration
InitRoute ==
    /\ InitPools([pools |-> 1, spawn |-> MaxSpawn, units |-> MaxSpawn, faults |-> MaxFaults])
    /\ \E c \in Configs : \E a \in ServicePorts(c) : local = NewLocal(c, a)
    /\ wire = NewWire
    /\ conf = NewConf(DefaultServerUrl, DEFAULT_SERVER_PROXY_PORT)
    /\ bridge = NewBridge

NextRoute ==
    \/ \E t \in Tags : FirstRead(t)
    \/ LocalConnect

SpecRoute == InitRoute /\ [][NextRoute]_vars

\* ------------------------------------------------------------ wire protocol
\* what the pure steps on a stream, a bridge or a configuration leave alone
poolVars == <<limit, callers, requests, supVars, workerVars, faults, idle, backoff, local>>

\* protocol.rs:7
AUTH_TOKEN_LENGTH == 80
\* protocol.rs:65, the longest host name the reader accepts
MAX_HOST_LEN == 1024
\* protocol.rs:33, the version the writer sends
HELLO_VERSION == 1

\* protocol.rs:18-24, enum ProxyConnectionMessage (repr u16)
AuthOk == 4369          \* 0x1111
AuthFailed == 8738      \* 0x2222
Ping == 13107           \* 0x3333
Pong == 17476           \* 0x4444
Data == 21845           \* 0x5555

ProxyConnectionMessage == {AuthOk, AuthFailed, Ping, Pong, Data}

Byte == 0..255

\* `as u16`
AsU16(n) == n % 65536

\* u16::to_be_bytes
to_be_bytes(n) == <<(n \div 256) % 256, n % 256>>

\* u16::from_be_bytes
from_be_bytes(b) == b[1] * 256 + b[2]

try_from_any(code) == [ok |-> TRUE, msg |-> code]

\* TryFromPrimitive: the variant with that discriminant, or an error
try_from(code) ==
    IF code \in ProxyConnectionMessage THEN [ok |-> TRUE, msg |-> code]
                                       ELSE [ok |-> FALSE, msg |-> 0]

\* std::str::from_utf8 on s from index i on: well-formed UTF-8 sequences only
RECURSIVE from_utf8(_, _)
from_utf8(s, i) ==
    IF i > Len(s) THEN TRUE
    ELSE LET b == s[i]
             Cont(j) == j <= Len(s) /\ s[j] \in 128..191
             In(j, lo, hi) == j <= Len(s) /\ s[j] \in lo..hi
         IN  IF b < 128 THEN from_utf8(s, i + 1)
             ELSE IF b \in 194..223 THEN Cont(i + 1) /\ from_utf8(s, i + 2)
             ELSE IF b = 224 THEN In(i + 1, 160, 191) /\ Cont(i + 2) /\ from_utf8(s, i + 3)
             ELSE IF b = 237 THEN In(i + 1, 128, 159) /\ Cont(i + 2) /\ from_utf8(s, i + 3)
             ELSE IF b \in 225..239 THEN Cont(i + 1) /\ Cont(i + 2) /\ from_utf8(s, i + 3)
             ELSE IF b = 240 THEN In(i + 1, 144, 191) /\ Cont(i + 2) /\ Cont(i + 3)
                                  /\ from_utf8(s, i + 4)
             ELSE IF b = 244 THEN In(i + 1, 128, 143) /\ Cont(i + 2) /\ Cont(i + 3)
                                  /\ from_utf8(s, i + 4)
             ELSE IF b \in 241..243 THEN Cont(i + 1) /\ Cont(i + 2) /\ Cont(i + 3)
                                         /\ from_utf8(s, i + 4)
             ELSE FALSE

\* protocol.rs:94-106
write_proxy_message(message) ==
    /\ wire.message = <<>>
    /\ wire.msg = <<>>
    /\ wire' = [wire EXCEPT !.bytes = @ \o to_be_bytes(message),
                            !.message = <<message>>]
    /\ UNCHANGED <<poolVars, conf, bridge>>

\* protocol.rs:80-92; read_exact fails when the stream ends before two bytes
read_proxy_message ==
    /\ wire.msg = <<>>
    /\ wire.bytes # <<>>
    /\ IF Len(wire.bytes) - wire.pos < 2
       THEN wire' = [wire EXCEPT !.pos = Len(wire.bytes),
                                 !.msg = <<[ok |-> FALSE, msg |-> 0]>>]
       ELSE LET buf == SubSeq(wire.bytes, wire.pos + 1, wire.pos + 2)
                code == from_be_bytes(buf)
            IN  wire' = [wire EXCEPT !.pos = @ + 2, !.msg = <<try_from(code)>>]
    /\ UNCHANGED <<poolVars, conf, bridge>>

\* protocol.rs:26-49: version, token, host length, host name
write_hello_message(inner_auth_token, host_name) ==
    /\ wire.bytes = <<>>
    /\ wire' = [wire EXCEPT
                  !.bytes = to_be_bytes(HELLO_VERSION) \o inner_auth_token
                              \o to_be_bytes(AsU16(Len(host_name))) \o host_name,
                  !.hello = <<[inner_auth_token |-> inner_auth_token,
                               host_name |-> host_name]>>]
    /\ UNCHANGED <<poolVars, conf, bridge>>

\* protocol.rs:54
BUF_LEN == 2 + AUTH_TOKEN_LENGTH + 2

HelloErr == [ok |-> FALSE, version |-> 0, inner_auth_token |-> <<>>, host_len |-> 0]

\* protocol.rs:51-78
read_fixed_portion_hello_message ==
    /\ wire.fixed = <<>>
    /\ wire.pos = 0
    /\ wire.bytes # <<>>
    /\ IF Len(wire.bytes) < BUF_LEN
       THEN wire' = [wire EXCEPT !.pos = Len(wire.bytes), !.fixed = <<HelloErr>>]
       ELSE LET buf == SubSeq(wire.bytes, 1, BUF_LEN)
                version == from_be_bytes(SubSeq(buf, 1, 2))
                auth_token_bytes == SubSeq(buf, 3, 2 + AUTH_TOKEN_LENGTH)
                host_len == from_be_bytes(SubSeq(buf, 2 + AUTH_TOKEN_LENGTH + 1, BUF_LEN))
                ret == IF ~from_utf8(auth_token_bytes, 1) \/ host_len > MAX_HOST_LEN
                       THEN HelloErr
                       ELSE [ok |-> TRUE, version |-> version,
                             inner_auth_token |-> auth_token_bytes, host_len |-> host_len]
            IN  wire' = [wire EXCEPT !.pos = BUF_LEN, !.fixed = <<ret>>]
    /\ UNCHANGED <<poolVars, conf, bridge>>

\* the streams a reader of one message may be given: nothing yet (the writer
\* is to act) or any two bytes
InitCodec ==
    /\ InitPools([pools |-> 1, spawn |-> MaxSpawn, units |-> MaxSpawn, faults |-> MaxFaults])
    /\ local = NewLocal(DefaultConfig, DEFAULT_LOCAL_HOME_SERVICE_PORT)
    /\ conf = NewConf(DefaultServerUrl, DEFAULT_SERVER_PROXY_PORT)
    /\ bridge = NewBridge
    /\ \E bytes \in {<<>>} \cup (Byte \X Byte) : wire = [NewWire EXCEPT !.bytes = bytes]

NextCodec ==
    \/ wire.bytes = <<>> /\ \E message \in ProxyConnectionMessage : write_proxy_message(message)
    \/ read_proxy_message

SpecCodec == InitCodec /\ [][NextCodec]_vars

\* the 80 bytes 'a', but for the two at k and k + 1
TokenBytes(k, x, y) ==
    [i \in 1..AUTH_TOKEN_LENGTH |-> IF i = k THEN x ELSE IF i = k + 1 THEN y ELSE 97]

\* 'a', the two bytes of U+00E9, and a byte that no UTF-8 text holds
SampleBytes == {97, 195, 169, 255}

\* the token bytes a stream may carry
RawTokens ==
    {TokenBytes(k, x, y) : k \in {1, AUTH_TOKEN_LENGTH - 1}, x \in SampleBytes, y \in SampleBytes}

\* the tokens a SecretString can hold
Tokens == {t \in RawTokens : from_utf8(t, 1)}

HostName(n) == [i \in 1..n |-> 97]

\* the host names of a request: none, a usual one, the longest the reader
\* accepts and one byte more
HostNames == {HostName(n) : n \in {0, 17, MAX_HOST_LEN, MAX_HOST_LEN + 1}}

\* the streams the reader of a hello may be given: nothing yet (the writer is
\* to act) or a hello whose token bytes are anything
InitHello ==
    /\ InitPools([pools |-> 1, spawn |-> MaxSpawn, units |-> MaxSpawn, faults |-> MaxFaults])
    /\ local = NewLocal(DefaultConfig, DEFAULT_LOCAL_HOME_SERVICE_PORT)
    /\ conf = NewConf(DefaultServerUrl, DEFAULT_SERVER_PROXY_PORT)
    /\ bridge = NewBridge
    /\ \E bytes \in {<<>>} \cup {to_be_bytes(HELLO_VERSION) \o t \o to_be_bytes(0) : t \in RawTokens} :
          wire = [NewWire EXCEPT !.bytes = bytes]

\* the hello opens the stream; the first message follows it
NextHello ==
    \/ \E t \in Tokens : \E h \in HostNames : write_hello_message(t, h)
    \/ read_fixed_portion_hello_message
    \/ wire.bytes # <<>> /\ \E message \in ProxyConnectionMessage : write_proxy_message(message)
    \/ wire.fixed # <<>> /\ wire.fixed[1].ok /\ read_proxy_message

SpecHello == InitHello /\ [][NextHello]_vars

\* ------------------------------------------------------- server addresses
\* the decimal digits of n, as `{port}` formats a u16
DigitChar(d) == <<"0", "1", "2", "3", "4", "5", "6", "7", "8", "9">>[d + 1]

RECURSIVE Digits(_)
Digits(n) == IF n < 10 THEN <<DigitChar(n)>> ELSE Digits(n \div 10) \o <<DigitChar(n % 10)>>

format_own_port(url, port) == <<url.host, ":">> \o Digits(url.port)

\* config.rs:68-73, format!("{host}:{port}") of the url's host and the
\* proxy port
format_host_port(url, port) == <<url.host, ":">> \o Digits(port)

\* Url::set_path for an http or https url: the path always starts with "/"
set_path(url, path) ==
    [url EXCEPT !.path = IF path # <<>> /\ path[1] = "/" THEN path ELSE <<"/">> \o path]

\* config.rs:68-73
server_proxy_url ==
    /\ conf.proxy_url = <<>>
    /\ conf' = [conf EXCEPT !.proxy_url = format_host_port(conf.server_url, conf.server_proxy_port)]
    /\ UNCHANGED <<poolVars, wire, bridge>>

\* config.rs:79-83: a clone of server_url with its path set
server_url_with_path(path) ==
    /\ conf.with_path = <<>>
    /\ conf' = [conf EXCEPT !.with_path = <<[path |-> path, url |-> set_path(conf.server_url, path)]>>]
    /\ UNCHANGED <<poolVars, wire, bridge>>

\* the server urls a configuration file may name: http or https, a port or
\* none, any path and query
ServerUrls ==
    [scheme : {"http", "https"}, host : {"www.portalbox.app", "localhost"},
     port : {0, 8080, DEFAULT_SERVER_PROXY_PORT},
     path : {<<"/">>, <<"/", "v1">>}, query : {"", "a=1"}]

\* the paths the client asks for, as the test of config.rs has them
Paths == {<<"api">>, <<"api", "/", "services">>, <<"/", "api">>}

InitConf ==
    /\ InitPools([pools |-> 1, spawn |-> MaxSpawn, units |-> MaxSpawn, faults |-> MaxFaults])
    /\ local = NewLocal(DefaultConfig, DEFAULT_LOCAL_HOME_SERVICE_PORT)
    /\ wire = NewWire
    /\ bridge = NewBridge
    /\ \E url \in ServerUrls : \E port \in {DEFAULT_SERVER_PROXY_PORT, DEFAULT_SERVER_PROXY_PORT + 1} :
          conf = NewConf(url, port)

NextConf ==
    \/ server_proxy_url
    \/ \E path \in Paths : server_url_with_path(path)

SpecConf == InitConf /\ [][NextConf]_vars

\* ------------------------------------------------------ an activated worker
\* proxy_client.rs:157
INIT_BUF_LEN == 1024

\* lines 166, 177-180: the first read returns k bytes, as many as arrived
\* and at most the buffer's length
ReadInitBuf(k) ==
    /\ bridge.stage = "read"
    /\ k <= INIT_BUF_LEN
    /\ bridge' = [bridge EXCEPT !.stage = "connect", !.init_buf = [i \in 1..k |-> i],
                                !.taken = k]
    /\ UNCHANGED <<poolVars, wire, conf>>

\* lines 182-187
ConnectLocal ==
    /\ bridge.stage = "connect"
    /\ bridge' = [bridge EXCEPT !.stage = "write"]
    /\ UNCHANGED <<poolVars, wire, conf>>

\* lines 189-191: one call of write, which accepts n bytes of the buffer, all
\* of them or fewer; the number is not looked at
WriteInitBuf(n) ==
    /\ bridge.stage = "write"
    /\ n \in 1..Len(bridge.init_buf)
    /\ bridge' = [bridge EXCEPT !.stage = "bridge", !.delivered = SubSeq(bridge.init_buf, 1, n)]
    /\ UNCHANGED <<poolVars, wire, conf>>

\* line 193, copy_bidirectional: one byte read from the proxy stream and
\* written to the local stream
CopyAToB ==
    /\ bridge.stage = "bridge"
    /\ bridge.a_to_b = "Running"
    /\ bridge.taken < limit.bytes
    /\ bridge' = [bridge EXCEPT !.taken = @ + 1, !.delivered = Append(@, bridge.taken + 1)]
    /\ UNCHANGED <<poolVars, wire, conf>>

\* line 193, copy_bidirectional: one byte read from the local stream and
\* written to the proxy stream
CopyBToA ==
    /\ bridge.stage = "bridge"
    /\ bridge.b_to_a = "Running"
    /\ bridge.back < limit.bytes
    /\ bridge' = [bridge EXCEPT !.back = @ + 1]
    /\ UNCHANGED <<poolVars, wire, conf>>

\* line 193, copy_bidirectional: the proxy stream is at its end; the local
\* stream is shut down for writing and this direction is done
EofA ==
    /\ bridge.stage = "bridge"
    /\ bridge.a_to_b = "Running"
    /\ bridge' = [bridge EXCEPT !.a_to_b = "Done"]
    /\ UNCHANGED <<poolVars, wire, conf>>

\* line 193, copy_bidirectional: the same for the local stream
EofB ==
    /\ bridge.stage = "bridge"
    /\ bridge.b_to_a = "Running"
    /\ bridge' = [bridge EXCEPT !.b_to_a = "Done"]
    /\ UNCHANGED <<poolVars, wire, conf>>

\* line 193, copy_bidirectional: a read or a write of a running direction
\* fails and the copy returns the error
CopyErr ==
    /\ bridge.stage = "bridge"
    /\ "Running" \in {bridge.a_to_b, bridge.b_to_a}
    /\ bridge' = [bridge EXCEPT !.stage = "ended", !.ret = "Err"]
    /\ UNCHANGED <<poolVars, wire, conf>>

\* lines 193-195: both directions are done, the copy returns and the worker
\* with it
CopyDone ==
    /\ bridge.stage = "bridge"
    /\ bridge.a_to_b = "Done"
    /\ bridge.b_to_a = "Done"
    /\ bridge' = [bridge EXCEPT !.stage = "ended", !.ret = "Ok"]
    /\ UNCHANGED <<poolVars, wire, conf>>

\* each side sends at most MaxBytes bytes
InitBridge ==
    /\ InitPools([pools |-> 1, spawn |-> MaxSpawn, units |-> MaxSpawn, faults |-> MaxFaults,
                  bytes |-> MaxBytes])
    /\ local = NewLocal(DefaultConfig, DEFAULT_LOCAL_HOME_SERVICE_PORT)
    /\ wire = NewWire
    /\ conf = NewConf(DefaultServerUrl, DEFAULT_SERVER_PROXY_PORT)
    /\ bridge = NewBridge

NextBridge ==
    \/ \E k \in 1..limit.bytes : ReadInitBuf(k)
    \/ ConnectLocal
    \/ \E n \in 1..limit.bytes : WriteInitBuf(n)
    \/ CopyAToB
    \/ CopyBToA
    \/ EofA
    \/ EofB
    \/ CopyErr
    \/ CopyDone

SpecBridge == InitBridge /\ [][NextBridge]_vars

TypeOK ==
    /\ callers \in 0..limit.pools
    /\ requests \in 0..limit.pools
    /\ \A p \in Pools :
        /\ sup[p] \in {"none", "starting", "running", "terminated"}
        /\ chan[p] \in Seq(Origins) /\ Len(chan[p]) <= MAX_READY_CONNECTIONS
        /\ endChan[p] \in 0..END_SERVICE_CAPACITY
        /\ spawned[p] \in 0..limit.spawn
        /\ \A w \in Workers :
            /\ pc[p][w] \in PcStates
            /\ read[p][w] \in ReadResults \cup {"none", PingFrame}
            /\ emitted[p][w] \in 0..1
            /\ retries[p][w] \in 0..limit.faults
            /\ idle[p][w] \in 0..ticks[p]

\* ------------------------------------------------------------------- claims
Spawned(p) == {w \in Workers : pc[p][w] # "none"}

\* authenticated, awaiting activation, token not cancelled
PendingLive(p) == {w \in Workers : pc[p][w] = "pending" /\ ~Cancelled(p, w)}

\* workers that got as far as the local connect (lines 182-195)
Opening(p, w) == pc[p][w] \in {"connect", "bridge", "localfail", "closed"}

Quiescent(p) ==
    /\ sup[p] = "running"
    /\ chan[p] = <<>>
    /\ \A w \in Workers : pc[p][w] \notin RetryLoop \cup {"signal", "connect"}

\* C1: in every quiescent state of a pool (channel empty, nobody dialing,
\* authenticating or in the activation handoff, supervisor running) reached by
\* activations and refresh ticks alone (no fault injected), exactly
\* MAX_READY_CONNECTIONS workers are pending with a live token.
C1_QuiescentPoolIsFull ==
    \A p \in Pools :
        (Quiescent(p) /\ faults[p] = 0) => Cardinality(PendingLive(p)) = MAX_READY_CONNECTIONS

EmittedBy(p) == {w \in Workers : emitted[p][w] = 1}

C4_AuthFailedStopsAllWorkers ==
    \A p \in {1} :
        (\E w \in Workers : pc[p][w] = "endsend") ~> [](\A w \in Workers : pc[p][w] \notin Running)

\* C5: a worker that has received AuthFailed terminates: the next position it
\* takes is a terminal one, it does not go back to sleeping and dialing.
C5_AuthFailedEndsWorker ==
    [][\A p \in Pools : \A w \in Workers :
        (pc[p][w] = "endsend" /\ pc'[p][w] # "endsend") => pc'[p][w] \in Terminal]_vars

\* an AuthFailed report has been delivered to the end_service channel
Reported(p) == endChan[p] > 0 \/ sup[p] = "terminated"

\* C6 as stated: after a worker has reported AuthFailed no worker of the pool
\* is spawned.
C6_NoSpawnAfterReport ==
    [][\A p \in Pools : Reported(p) => spawned'[p] = spawned[p]]_vars

\* C6 amended: a delivered report can only be taken by the supervisor
\* terminating; once terminated the supervisor stays so and spawns nothing,
\* whatever units are queued or arrive.
C6_NoSpawnAfterTermination ==
    [][\A p \in Pools :
        /\ endChan'[p] < endChan[p] => sup'[p] = "terminated"
        /\ sup[p] = "terminated" =>
              /\ sup'[p] = "terminated"
              /\ spawned'[p] = spawned[p]
              /\ chan'[p] = chan[p]
              /\ \A w \in Workers : pc[p][w] = "none" => pc'[p][w] = "none"]_vars

C6_Witness ==
    \E p \in Pools : sup[p] = "terminated" /\ chan[p] # <<>> /\ spawned[p] < MaxSpawn

\* C7 as stated: a pending worker whose read fails terminates and sends
\* nothing on the replenishment channel.
C7_FailedReadEmitsNothing ==
    [][\A p \in Pools : \A w \in Workers :
        (pc[p][w] = "signal" /\ read[p][w] \in {"eof", "err"} /\ pc'[p][w] # "signal") =>
            /\ pc'[p][w] \in Terminal
            /\ chan'[p] = chan[p]
            /\ emitted'[p][w] = emitted[p][w]]_vars

\* C7 amended: a pending worker whose read fails (error or end of stream)
\* sends one unit on the replenishment channel, delivered when the supervisor
\* is running, and terminates in the same step without a local connect.
C7_FailedReadEmitsThenEnds ==
    [][\A p \in Pools : \A w \in Workers :
        (pc[p][w] = "signal" /\ read[p][w] \in {"eof", "err"} /\ pc'[p][w] # "signal") =>
            /\ pc'[p][w] = "lost"
            /\ IF sup[p] = "running"
                  THEN emitted'[p][w] = 1 /\ chan'[p] = Append(chan[p], "error")
                  ELSE emitted'[p][w] = 0 /\ chan'[p] = chan[p]]_vars

C7_Witness ==
    \E p \in Pools : \E w \in Workers : pc[p][w] = "lost" /\ emitted[p][w] = 1

\* the step is worker w returning on an error that is not AuthFailed
ErrorExit(p, w) ==
    \/ pc[p][w] = "signal" /\ pc'[p][w] = "lost"
    \/ pc[p][w] = "connect" /\ pc'[p][w] = "localfail"
    \/ pc[p][w] = "bridge" /\ pc'[p][w] = "closed"

\* the step is the supervisor spawning on the unit a failed read sent
SpawnOnError(p) ==
    /\ chan[p] # <<>>
    /\ Head(chan[p]) = "error"
    /\ spawned'[p] # spawned[p]

\* C8: a worker ending on an error other than AuthFailed leaves its siblings,
\* their tokens and the supervisor as they are, and the unit it may have sent
\* gets no running sibling cancelled either.
C8_ErrorsAreLocal ==
    [][\A p \in Pools :
        /\ \A w \in Workers : ErrorExit(p, w) =>
              /\ \A v \in Workers \ {w} : pc'[p][v] = pc[p][v]
              /\ connections'[p] = connections[p]
              /\ sup'[p] = sup[p] /\ endChan'[p] = endChan[p]
        /\ SpawnOnError(p) =>
              \A v \in Workers : (pc[p][v] \in Running /\ ~Cancelled(p, v)) => ~Cancelled(p, v)']_vars

\* workers whose drop guard the step takes out of the queue: their token is
\* cancelled by the step
NewlyCancelled(p) == {w \in Range(connections[p]) : w \notin Range(connections'[p])}

\* C9: while the supervisor keeps running, a step cancels at most one worker,
\* and neither that step nor the step in which the worker observes the
\* cancellation changes the position or the token of any other spawned worker
\* or ends the supervisor.
C9_CancelOneLeavesSiblings ==
    [][\A p \in Pools : sup'[p] = "running" =>
        /\ \A w \in NewlyCancelled(p) :
              /\ Cancelled(p, w)' /\ ~Cancelled(p, w)
              /\ NewlyCancelled(p) = {w}
              /\ \A v \in Workers \ {w} : pc[p][v] # "none" =>
                    pc'[p][v] = pc[p][v] /\ Cancelled(p, v)' = Cancelled(p, v)
        /\ \A w \in Workers : (pc[p][w] = "pending" /\ pc'[p][w] = "cancelled") =>
              /\ \A v \in Workers \ {w} : pc'[p][v] = pc[p][v]
              /\ connections'[p] = connections[p]
              /\ sup[p] = "running"]_vars

C9_Witness ==
    \E p \in Pools : \E w \in Workers :
        /\ sup[p] = "running"
        /\ pc[p][w] = "cancelled"
        /\ Cardinality(PendingLive(p)) = MAX_READY_CONNECTIONS - 1

C11_CancelledWorkerStopsDialing ==
    [][\A p \in Pools : \A w \in Workers : Cancelled(p, w) =>
        /\ ~(pc[p][w] # "backoff" /\ pc'[p][w] = "backoff")
        /\ ~(pc[p][w] = "backoff" /\ pc'[p][w] = "dial")]_vars

\* C12 as stated: the sleep between two dial attempts is never more than
\* max_interval (4 s).
C12_SleepAtMostMaxInterval ==
    backoff.slept <= Millis(MAX_INTERVAL_MILLIS)

\* C12 amended: the interval grows from 500 ms by the factor 1.5 and is capped
\* at max_interval (reached at the sixth failure); the sleep drawn from it is
\* between half and one and a half times the interval, so never more than 6 s.
C12_SleepAtMostRandomizedMax ==
    /\ backoff.current_interval >= Millis(INITIAL_INTERVAL_MILLIS)
    /\ backoff.current_interval <= Millis(MAX_INTERVAL_MILLIS)
    /\ backoff.calls >= 6 => backoff.current_interval = Millis(MAX_INTERVAL_MILLIS)
    /\ backoff.calls >= 1 =>
          /\ 2 * backoff.slept >= Millis(INITIAL_INTERVAL_MILLIS)
          /\ 2 * backoff.slept <= 3 * Millis(MAX_INTERVAL_MILLIS)
          /\ 2 * backoff.slept <= 3 * backoff.current_interval

C12_Witness ==
    backoff.calls >= 7 /\ backoff.slept > Millis(MAX_INTERVAL_MILLIS)

\* C13: a pending worker whose read returns a Ping frame remains pending: it
\* sends no replenishment unit, does not go on to the local connect and does
\* not terminate.
C13_PingKeepsWorkerPending ==
    [][\A p \in Pools : \A w \in Workers :
        (pc[p][w] = "pending" /\ read'[p][w] = PingFrame) =>
            /\ pc'[p][w] = "pending"
            /\ emitted'[p][w] = emitted[p][w]]_vars

\* C14: a pending worker that has received nothing for 30 s has terminated.
\* Two refresh ticks are at least REFRESH_CONN_INTERVAL = 60 s apart, so no
\* worker whose token is live is still pending after two ticks have passed
\* during its wait.
C14_SilentWorkerTimesOut ==
    \A p \in Pools : \A w \in Workers :
        (pc[p][w] = "pending" /\ ~Cancelled(p, w)) => idle[p][w] <= 1

\* workers that sent their unit and then failed to connect to the local service
LocalFailed(p) == {w \in Workers : pc[p][w] = "localfail" /\ emitted[p][w] = 1}

\* C15: a failure of the local connect ends the worker and nothing else: the
\* unit the worker sent before stays where it is, so that while the supervisor
\* runs there is a worker spawned or a unit queued for every such worker, over
\* and above the initial ones, and the supervisor can spawn whenever a unit is
\* queued.
C15_LocalFailureStillRefills ==
    [][\A p \in Pools :
        /\ \A w \in Workers :
              (pc[p][w] = "connect" /\ pc'[p][w] \notin {"connect", "bridge"}) =>
                  /\ pc'[p][w] = "localfail"
                  /\ emitted'[p][w] = emitted[p][w]
                  /\ chan'[p] = chan[p] /\ spawned'[p] = spawned[p]
                  /\ sup'[p] = sup[p] /\ connections'[p] = connections[p]
        /\ sup[p] = "running" =>
              /\ spawned[p] + Len(chan[p]) >= MAX_READY_CONNECTIONS + Cardinality(LocalFailed(p))
              /\ chan[p] # <<>> => ENABLED Spawn(p)]_vars

C15_Witness ==
    \E p \in Pools : \E w \in Workers :
        /\ sup[p] = "running"
        /\ w \in LocalFailed(p)
        /\ spawned[p] = MAX_READY_CONNECTIONS + 1
        /\ chan[p] = <<>>

\* the step is the supervisor spawning on a unit of the refresh loop
SpawnOnRefresh(p) ==
    /\ chan[p] # <<>>
    /\ Head(chan[p]) = "refresh"
    /\ spawned'[p] = spawned[p] + 1

\* C16: the spawn made for a refresh tick while MAX_READY_CONNECTIONS workers
\* are pending adds a worker and cancels or ends none of the pending ones.
C16_RefreshCancelsNobody ==
    [][\A p \in Pools :
        (SpawnOnRefresh(p) /\ Cardinality(PendingLive(p)) = MAX_READY_CONNECTIONS) =>
            /\ pc'[p][spawned'[p]] = "dial"
            /\ \A v \in PendingLive(p) : pc'[p][v] = "pending" /\ ~Cancelled(p, v)']_vars

\* C17: the send of the replenishment unit never blocks: a worker that has
\* left the pending state can always complete the send and go on, whatever
\* the channel holds.
C17_SignalNeverBlocks ==
    \A p \in Pools : \A w \in Workers :
        pc[p][w] = "signal" => ENABLED SendSignal(p, w)

\* C18: start_service queues exactly MAX_READY_CONNECTIONS units before it
\* spawns anything; every spawn takes exactly one unit off the channel and
\* nothing else takes one; and with no refresh tick, no unit sent by a worker
\* and no fault, the workers spawned and the units queued add up to
\* MAX_READY_CONNECTIONS.
C18_OneWorkerPerUnit ==
    [][\A p \in Pools :
        /\ (sup[p] = "starting" /\ sup'[p] = "running") =>
              /\ Len(chan'[p]) = MAX_READY_CONNECTIONS
              /\ \A i \in 1..Len(chan'[p]) : chan'[p][i] = "init"
              /\ spawned'[p] = 0
        /\ spawned'[p] # spawned[p] =>
              /\ spawned'[p] = spawned[p] + 1
              /\ chan[p] # <<>> /\ chan'[p] = Tail(chan[p])
              /\ pc[p][spawned'[p]] = "none" /\ pc'[p][spawned'[p]] = "dial"
        /\ Len(chan'[p]) < Len(chan[p]) => spawned'[p] = spawned[p] + 1
        /\ (sup[p] = "running" /\ ticks[p] = 0 /\ faults[p] = 0
                /\ \A w \in Workers : emitted[p][w] = 0 /\ pc[p][w] # "signal") =>
              spawned[p] + Len(chan[p]) = MAX_READY_CONNECTIONS]_vars

C18_Witness ==
    \E p \in Pools :
        /\ sup[p] = "running" /\ ticks[p] = 0 /\ faults[p] = 0
        /\ chan[p] = <<>>
        /\ spawned[p] = MAX_READY_CONNECTIONS
        /\ \A w \in 1..MAX_READY_CONNECTIONS : pc[p][w] = "pending"

\* everything one registration owns
PoolState(p) ==
    <<sup[p], chan[p], endChan[p], connections[p], spawned[p], ticks[p],
      pc[p], read[p], emitted[p], retries[p], faults[p]>>

\* C19: the daemon takes the requests one by one and starts exactly one
\* supervisor for each, it can take a request whatever the pools already
\* started have come to, and a step that changes anything of one pool (an
\* AuthFailed, a worker's error, the end of its supervisor) changes nothing of
\* another pool.
C19_PoolsAreIndependent ==
    [][/\ requests' < requests =>
              /\ requests' = requests - 1
              /\ \E p \in Pools :
                    /\ sup[p] = "none" /\ sup'[p] = "starting"
                    /\ \A q \in Pools \ {p} : PoolState(q)' = PoolState(q)
       /\ \A p \in Pools : (sup[p] = "none" /\ sup'[p] # "none") => requests' = requests - 1
       /\ requests > 0 => ENABLED (\E p \in Pools : DaemonRecv(p))
       /\ \A p \in Pools : PoolState(p)' # PoolState(p) =>
              \A q \in Pools \ {p} : PoolState(q)' = PoolState(q)]_vars

C19_Witness ==
    \E p \in Pools : \E q \in Pools \ {p} : \E w \in Workers :
        /\ sup[p] = "terminated"
        /\ sup[q] = "running"
        /\ pc[q][w] = "pending" /\ ~Cancelled(q, w)

\* the port the activation tag selects
PortForTag(c, t) ==
    CASE t = "DataHome" -> c.local_home_service_port
      [] t = "DataVscode" -> c.vscode_port
      [] t = "DataSsh" -> c.ssh_port

\* C20: the local port a worker connects to after activation is the one the
\* tag of the first frame selects in the configuration.
C20_PortChosenByTag ==
    local.port # 0 => local.port = PortForTag(local.config, local.tag)

\* workers dialing, authenticating or pending
Unready(p) == {w \in Workers : pc[p][w] \in RetryLoop \cup {"pending"}}

\* C26 as stated: while the supervisor runs, the units queued are
\* MAX_READY_CONNECTIONS minus the workers pending, dialing or authenticating,
\* plus the refresh units still queued.
C26_QueuedUnitsFormula ==
    \A p \in Pools : sup[p] = "running" =>
        Len(chan[p]) = MAX_READY_CONNECTIONS - Cardinality(Unready(p))
                         + Cardinality({i \in 1..Len(chan[p]) : chan[p][i] = "refresh"})

\* C26 amended: while the supervisor runs, the units queued are
\* MAX_READY_CONNECTIONS minus the workers pending, dialing or authenticating,
\* minus the workers that have left the pending state and not yet sent their
\* unit, minus the workers that returned on cancellation, plus all the refresh
\* units sent so far, consumed or not.
C26_QueuedUnitsBalance ==
    \A p \in Pools : sup[p] = "running" =>
        Len(chan[p]) = MAX_READY_CONNECTIONS + ticks[p]
                         - Cardinality(Unready(p))
                         - Cardinality({w \in Workers : pc[p][w] = "signal"})
                         - Cardinality({w \in Workers : pc[p][w] = "cancelled"})

C26_Witness ==
    \E p \in Pools : \E w \in Workers :
        /\ sup[p] = "running"
        /\ ticks[p] = 1
        /\ pc[p][w] = "cancelled"
        /\ Len(chan[p]) = 0
        /\ Cardinality(Unready(p)) = MAX_READY_CONNECTIONS

\* the codes of the closed set: AuthOk, AuthFailed, Ping, Pong, DataHome,
\* DataVscode, DataSsh
ClosedSet == {4369, 8738, 13107, 17476, 21845, 21846, 21847}

\* the two bytes of a stream that holds one frame, as a big-endian number
FrameCode == wire.bytes[1] * 256 + wire.bytes[2]

\* C22 as stated: a frame that carries a code of the closed set as two bytes
\* big-endian is read as the message with that code, and a message written
\* is on the wire as its code, two bytes big-endian.
C22_ClosedSetRoundTrip ==
    /\ (wire.message # <<>> /\ Len(wire.bytes) = 2) => FrameCode = wire.message[1]
    /\ (wire.msg # <<>> /\ Len(wire.bytes) = 2 /\ FrameCode \in ClosedSet) =>
          wire.msg[1] = [ok |-> TRUE, msg |-> FrameCode]

\* C23: reading a frame whose two bytes, big-endian, are not a code of the
\* closed set fails and returns no message.
C23_UnknownCodeRejected ==
    (wire.msg # <<>> /\ Len(wire.bytes) = 2 /\ FrameCode \notin ClosedSet) =>
        wire.msg[1] = [ok |-> FALSE, msg |-> 0]

C23_Witness ==
    /\ wire.bytes = <<18, 52>>
    /\ wire.pos = 2
    /\ wire.msg # <<>>
    /\ ~wire.msg[1].ok

C25_HelloIs82Bytes ==
    /\ (wire.hello # <<>> /\ wire.message = <<>>) => Len(wire.bytes) = 82
    /\ (wire.fixed # <<>> /\ wire.fixed[1].ok /\ wire.msg = <<>>) => wire.pos = 82
    /\ (wire.hello # <<>> /\ wire.message # <<>> /\ wire.msg # <<>>) =>
          wire.msg[1] = [ok |-> TRUE, msg |-> wire.message[1]]

\* the place of the last ":" of a text
LastColon(t) == CHOOSE i \in 1..Len(t) : t[i] = ":" /\ \A j \in (i + 1)..Len(t) : t[j] # ":"

\* the number a text of decimal digits stands for
RECURSIVE Number(_)
Number(ds) ==
    IF ds = <<>> THEN 0
    ELSE 10 * Number(SubSeq(ds, 1, Len(ds) - 1))
           + (CHOOSE d \in 0..9 : <<"0", "1", "2", "3", "4", "5", "6", "7", "8", "9">>[d + 1] = ds[Len(ds)])

\* C27: the text server_proxy_url returns is the host of server_url, a colon
\* and server_proxy_port in decimal, whatever port and path server_url has;
\* the url server_url_with_path(p) returns differs from server_url in its
\* path only, which is p.
C27_ProxyEndpoint ==
    /\ conf.proxy_url # <<>> =>
          LET t == conf.proxy_url
              i == LastColon(t)
          IN  /\ SubSeq(t, 1, i - 1) = <<conf.server_url.host>>
              /\ i < Len(t)
              /\ Number(SubSeq(t, i + 1, Len(t))) = conf.server_proxy_port
    /\ conf.with_path # <<>> =>
          LET r == conf.with_path[1]
          IN  /\ r.url.scheme = conf.server_url.scheme
              /\ r.url.host = conf.server_url.host
              /\ r.url.port = conf.server_url.port
              /\ r.url.query = conf.server_url.query
              /\ r.url.path \in {r.path, <<"/">> \o r.path}
              /\ r.url.path[1] = "/"

C27_Witness ==
    /\ conf.server_url.port = 8080
    /\ conf.server_url.path = <<"/", "v1">>
    /\ conf.server_proxy_port = 46638
    /\ conf.proxy_url = <<conf.server_url.host, ":", "4", "6", "6", "3", "8">>
    /\ conf.with_path # <<>>
    /\ conf.with_path[1].url.path = <<"/", "api", "/", "services">>

\* C21 as stated: while the worker bridges, neither side has closed; once a
\* side has closed the worker has ended.
C21_EitherSideEndsWorker ==
    bridge.stage = "bridge" => (bridge.a_to_b = "Running" /\ bridge.b_to_a = "Running")

\* C28 as stated: once the first bytes are written, the local service has
\* received all of them, and what it has received at any time is the proxy
\* stream from its first byte on, nothing missing, repeated or out of order.
C28_FirstBytesAllDelivered ==
    bridge.stage \in {"bridge", "ended"} =>
        /\ Len(bridge.delivered) >= Len(bridge.init_buf)
        /\ \A i \in 1..Len(bridge.delivered) : bridge.delivered[i] = i
====
